---- MODULE Spec2Model ----
(***************************************************************************)
(* Model of custom_components/comfoconnect/config_flow.py: the config flow *)
(* (setup wizard) of the ComfoConnect integration.                         *)
(*                                                                         *)
(* A flow instance is a ComfoConnectConfigFlow object together with the    *)
(* position of the step coroutine that is running on it.  A step runs from *)
(* one await on the bridge library to the next; between two steps of a     *)
(* flow the flow waits at a form for the user's input.                     *)
(***************************************************************************)
EXTENDS Integers, Sequences, FiniteSets, TLC

(***************************************************************************)
(* Bounds of the model.                                                    *)
(***************************************************************************)
\* Number of flow instances that exist side by side.
NumFlows == 2
\* No new flow is started once this many configuration entries exist.
MaxEntries == 3
\* Every string over PinChars up to this length is a PIN text the user types.
MaxPinLen == 1

(***************************************************************************)
(* Program constants.                                                      *)
(***************************************************************************)
\* vol.Range(min=0, max=9999)
PIN_MIN == 0
PIN_MAX == 9999
\* DEFAULT_PIN = "0000": a str, not an int
DEFAULT_PIN == <<"0", "0", "0", "0">>
COMFOCONNECT_MANUAL_BRIDGE_ID == "manual"
CONF_PIN == "pin"
SOURCE_USER == "user"
SOURCE_IMPORT == "import"
SOURCE_REAUTH == "reauth"

(***************************************************************************)
(* Python values.  None of each type is a value of its own.                *)
(***************************************************************************)
NoneStr == "None"
NoBridge == [none |-> TRUE]
NoPin == [none |-> TRUE]
NoDict == [none |-> TRUE]
Absent == [absent |-> TRUE]
Invalid == [invalid |-> TRUE]
IntVal(n) == [int |-> n]
StrVal(s) == [str |-> s]
IsInt(v) == DOMAIN v = {"int"}
IsStr(v) == DOMAIN v = {"str"}
EmptyDict == [k \in {} |-> NoBridge]

(***************************************************************************)
(* The environment: the bridges on the network, the hosts a user can type, *)
(* the values random_uuid_hex() and an import token can take.              *)
(***************************************************************************)
Bridge(host, uuid) == [host |-> host, uuid |-> uuid]
\* The bridge u1 answers on two addresses.
Network == {Bridge("h1", "u1"), Bridge("h2", "u2"), Bridge("h3", "u1")}
Hosts == {b.host : b \in Network}
RandomUuids == {"r1", "r2"}
\* random_uuid_hex() is called only when no local uuid was provided
Generated(local_uuid) == IF local_uuid = NoneStr THEN RandomUuids ELSE {local_uuid}
ImportTokens == {NoneStr, "t1"}
Flows == 1..NumFlows

(***************************************************************************)
(* PIN validation.  A text is a sequence of one-character strings.         *)
(***************************************************************************)
DigitChars == <<"0", "1", "2", "3", "4", "5", "6", "7", "8", "9">>
Digits == {DigitChars[i] : i \in 1..10}
DigitValue(c) == (CHOOSE i \in 1..10 : DigitChars[i] = c) - 1

RECURSIVE LStrip(_)
LStrip(s) == IF s # <<>> /\ Head(s) = " " THEN LStrip(Tail(s)) ELSE s

RECURSIVE RStrip(_)
RStrip(s) ==
    IF s # <<>> /\ s[Len(s)] = " " THEN RStrip(SubSeq(s, 1, Len(s) - 1)) ELSE s

\* The grammar int() accepts after the sign: digits, single underscores
\* between them.
IsDecimal(t) ==
    /\ t # <<>>
    /\ \A i \in 1..Len(t) : t[i] \in Digits \cup {"_"}
    /\ t[1] \in Digits
    /\ t[Len(t)] \in Digits
    /\ \A i \in 1..(Len(t) - 1) : ~(t[i] = "_" /\ t[i + 1] = "_")

RECURSIVE DecimalValue(_, _)
DecimalValue(t, acc) ==
    IF t = <<>> THEN acc
    ELSE IF Head(t) = "_" THEN DecimalValue(Tail(t), acc)
    ELSE DecimalValue(Tail(t), 10 * acc + DigitValue(Head(t)))

\* int(s) of a str: surrounding blanks dropped, an optional sign, a decimal.
PyInt(s) ==
    LET t == RStrip(LStrip(s))
        signed == t # <<>> /\ t[1] \in {"+", "-"}
        body == IF signed THEN Tail(t) ELSE t
        sign == IF signed /\ t[1] = "-" THEN -1 ELSE 1
    IN  IF IsDecimal(body) THEN IntVal(sign * DecimalValue(body, 0)) ELSE Invalid

\* vol.Coerce(int): an int stays, a str goes through int(), a failure is
\* vol.Invalid.
CoerceInt(v) == IF IsInt(v) THEN v ELSE IF IsStr(v) THEN PyInt(v.str) ELSE Invalid

\* A range check that forgets the minimum: vol.Range(max=9999).
InRangeNoMinimum(v) == IF v.int > PIN_MAX THEN Invalid ELSE v

\* vol.Range(min=0, max=9999)
InRange(v) == IF v.int < PIN_MIN \/ v.int > PIN_MAX THEN Invalid ELSE v

\* PIN_VALIDATOR = vol.All(vol.Coerce(int), vol.Range(min=0, max=9999))
PIN_VALIDATOR(v) ==
    LET c == CoerceInt(v) IN IF c = Invalid THEN Invalid ELSE InRange(c)

\* _parse_optional_pin: the pair (pin, errors[CONF_PIN]) it leaves.
PinInputOf(user_input) ==
    IF user_input.pin = Absent THEN StrVal(<<>>) ELSE user_input.pin

ParseOptionalPin(user_input) ==
    LET pin_input == PinInputOf(user_input)
    IN  IF pin_input = StrVal(<<>>) THEN [pin |-> NoPin, error |-> NoneStr]
        ELSE IF PIN_VALIDATOR(pin_input) = Invalid
             THEN [pin |-> NoPin, error |-> "invalid_pin"]
             ELSE [pin |-> PIN_VALIDATOR(pin_input), error |-> NoneStr]

(***************************************************************************)
(* What the user can type into a PIN field: every text over PinChars up to *)
(* MaxPinLen, some longer texts around the limits, and (as JSON numbers in *)
(* the enter_pin form) some integers.                                      *)
(***************************************************************************)
PinChars == {"7", "-", " ", "x"}
RECURSIVE TextsUpTo(_)
TextsUpTo(n) ==
    IF n = 0 THEN {<<>>}
    ELSE TextsUpTo(n - 1) \cup
         {Append(t, c) : t \in {u \in TextsUpTo(n - 1) : Len(u) = n - 1}, c \in PinChars}
LongTexts ==
    { <<"0", "0", "0", "0">>, <<"9", "9", "9", "9">>, <<"1", "0", "0", "0", "0">>,
      <<"-", "1">>, <<" ", "0", "7", " ">>, <<"0", "_", "7">>, <<"+", "7">> }
PinTexts == TextsUpTo(MaxPinLen) \cup LongTexts
PinNumbers == {-1, 0, 9999, 10000}
ManualPinInputs == {StrVal(t) : t \in PinTexts}
EnterPinInputs == {StrVal(t) : t \in PinTexts \ {<<>>}} \cup {IntVal(n) : n \in PinNumbers}

(***************************************************************************)
(* State.                                                                  *)
(*   flows[f]  a ComfoConnectConfigFlow instance and the frame of the step *)
(*             running on it:                                              *)
(*     pc                 where the flow is: "idle" (no instance), "form"  *)
(*                        (waiting for input), "done", or the await the    *)
(*                        running step is suspended at                     *)
(*     source, entry_id, unique_id   the flow context                      *)
(*     cur_step           the form the flow waits at (the last one shown)  *)
(*     is_init            the running step was started by the flow's init  *)
(*     step               the step that is running or ran last             *)
(*     user_input, bridges   its input, as far as the step still reads it, *)
(*                        and what its discovery returned                  *)
(*     handler            the step whose try/except encloses _register     *)
(*     bridge, local_uuid, discovered_bridges   the instance attributes    *)
(*     errors, pin, after   locals of the running step; after is what      *)
(*                        leaves the try block of _register                *)
(*     connected          the connection of self.bridge is open            *)
(*     result             what the last step returned or raised            *)
(*     log                the bridge calls of the last step, in order      *)
(*     created, reloads   entries created and reloads scheduled by the     *)
(*                        instance                                         *)
(*   entries   the configuration entries of the domain, by entry id        *)
(***************************************************************************)
VARIABLES flows, entries

vars == <<flows, entries>>

NoErrors == [k \in {} |-> NoneStr]
BaseError(e) == [k \in {"base"} |-> e]
PinError(e) == [k \in {CONF_PIN} |-> e]
NoInput == [none |-> TRUE]
NoResult == [type |-> "none"]

Idle ==
    [ pc |-> "idle", source |-> NoneStr, entry_id |-> 0, unique_id |-> NoneStr,
      cur_step |-> NoResult, is_init |-> FALSE, step |-> NoneStr,
      user_input |-> NoInput, bridges |-> <<>>, handler |-> NoneStr,
      bridge |-> NoBridge, local_uuid |-> NoneStr, discovered_bridges |-> NoDict,
      errors |-> NoErrors, pin |-> NoPin, after |-> "none",
      connected |-> FALSE, result |-> NoResult, log |-> <<>>,
      created |-> 0, reloads |-> <<>> ]

\* __init__, the context the flow manager gives the instance, and the init
\* step it calls with data
NewFlow(source, data) ==
    [Idle EXCEPT !.source = source, !.is_init = TRUE, !.step = source,
                 !.user_input = data]

Init ==
    /\ flows = [f \in Flows |-> Idle]
    /\ entries = <<>>

(***************************************************************************)
(* The host platform, as the flow uses it.                                 *)
(***************************************************************************)
\* self._async_current_ids(False)
CurrentIds(es) == {es[i].unique_id : i \in DOMAIN es}

\* A flow that leaves out the check of the unique id.
UniqueIdNeverConfigured(unique_id, es) == FALSE

\* self._abort_if_unique_id_configured(): TRUE when it raises AbortFlow
UniqueIdConfigured(unique_id, es) == unique_id \in CurrentIds(es)

\* async_show_form(step_id, errors, data_schema)
Form(step_id, errors, schema) ==
    [type |-> "form", step_id |-> step_id, errors |-> errors, schema |-> schema]

\* async_abort(reason)
Abort(reason) == [type |-> "abort", reason |-> reason]

\* async_create_entry(title, data)
CreateEntry(title, data) == [type |-> "create_entry", title |-> title, data |-> data]

\* an exception that leaves the step
Raised(exc) == [type |-> "exception", exc |-> exc]

\* The flow manager on a step that returned a form: the flow waits at it.
AtForm(fl, result) ==
    [fl EXCEPT !.pc = "form", !.cur_step = result, !.is_init = FALSE,
               !.result = result, !.user_input = NoInput, !.errors = NoErrors,
               !.pin = NoPin, !.after = "none", !.handler = NoneStr]

\* The flow manager on a step that returned an abort or an entry: the flow
\* is over.
Finished(fl, result) ==
    [fl EXCEPT !.pc = "done", !.cur_step = NoResult, !.is_init = FALSE,
               !.result = result, !.user_input = NoInput, !.errors = NoErrors,
               !.pin = NoPin, !.after = "none", !.handler = NoneStr]

\* The flow manager on a step that raised: an init step leaves no flow to
\* continue; a later step leaves the flow at the form it was submitted from.
Propagated(fl, exc) ==
    IF fl.is_init THEN Finished(fl, Raised(exc))
    ELSE [fl EXCEPT !.pc = "form", !.result = Raised(exc),
                    !.user_input = NoInput, !.errors = NoErrors,
                    !.pin = NoPin, !.after = "none", !.handler = NoneStr]

(***************************************************************************)
(* The bridge library, as the flow uses it.                                *)
(***************************************************************************)
\* aiocomfoconnect.discover_bridges(): the bridges that answered, in order
RECURSIVE Orderings(_)
Orderings(S) ==
    IF S = {} THEN {<<>>}
    ELSE UNION {{<<b>> \o t : t \in Orderings(S \ {b})} : b \in S}
DiscoverAll == UNION {Orderings(S) : S \in SUBSET Network}

\* aiocomfoconnect.discover_bridges(host): the bridge at host, if it answers
DiscoverHost(host) == {<<>>} \cup {<<b>> : b \in {n \in Network : n.host = host}}

\* a call on the Bridge object bridge, and how it ended
Call(bridge, op, uuid, pin, res) ==
    [bridge |-> bridge, op |-> op, uuid |-> uuid, pin |-> pin, res |-> res]

(***************************************************************************)
(* The forms.                                                              *)
(***************************************************************************)
Keys(d) == IF d = NoDict THEN {} ELSE DOMAIN d

\* A map of the discovered bridges that leaves out the filter:
\* {bridge.uuid: bridge for bridge in bridges}.
RECURSIVE DictOfBridgesUnfiltered(_, _)
DictOfBridgesUnfiltered(bridges, ids) ==
    IF bridges = <<>> THEN EmptyDict
    ELSE LET b == bridges[Len(bridges)]
             rest == DictOfBridgesUnfiltered(SubSeq(bridges, 1, Len(bridges) - 1), ids)
         IN  [k \in DOMAIN rest \cup {b.uuid} |-> IF k = b.uuid THEN b ELSE rest[k]]

\* {bridge.uuid: bridge for bridge in bridges if bridge.uuid not in ids}
RECURSIVE DictOfBridges(_, _)
DictOfBridges(bridges, ids) ==
    IF bridges = <<>> THEN EmptyDict
    ELSE LET b == bridges[Len(bridges)]
             rest == DictOfBridges(SubSeq(bridges, 1, Len(bridges) - 1), ids)
         IN  IF b.uuid \in ids THEN rest
             ELSE [k \in DOMAIN rest \cup {b.uuid} |-> IF k = b.uuid THEN b ELSE rest[k]]

\* _show_user_form: the choices are uuid -> host of the discovered bridges,
\* and the manual entry
UserChoices(discovered_bridges) ==
    [k \in Keys(discovered_bridges) \cup {COMFOCONNECT_MANUAL_BRIDGE_ID} |->
        IF k \in Keys(discovered_bridges) THEN discovered_bridges[k].host
        ELSE "Manually add a ComfoConnect LAN C Bridge"]

ShowUserForm(fl, errors) ==
    AtForm(fl, Form("user", errors, [choices |-> UserChoices(fl.discovered_bridges)]))

\* _show_manual_form
ShowManualForm(fl, errors, host) ==
    AtForm(fl, Form("manual", errors, [host_default |-> host]))

\* the form of async_step_enter_pin
ShowEnterPinForm(fl, errors) ==
    AtForm(fl, Form("enter_pin", errors, [pin |-> "PIN_VALIDATOR"]))

(***************************************************************************)
(* _register.                                                              *)
(***************************************************************************)
\* A registration that generates the local uuid anew every time.
RegisterWithNewUuid(fl, pin, handler, generated) ==
    [fl EXCEPT !.local_uuid = IF @ = generated
                              THEN CHOOSE r \in RandomUuids : r # @
                              ELSE generated,
               !.pin = pin, !.handler = handler, !.after = "none",
               !.errors = NoErrors, !.pc = "connect"]

\* _register(pin) up to its first await: the local uuid is generated when
\* none was provided, then the bridge is connected to.
Register(fl, pin, handler, generated) ==
    [fl EXCEPT !.local_uuid = IF @ = NoneStr THEN generated ELSE @,
               !.pin = pin, !.handler = handler, !.after = "none",
               !.errors = NoErrors, !.pc = "connect"]

\* Entry data that keeps the default PIN beside the three fields.
EntryDataWithPin(bridge, local_uuid) ==
    [ host |-> bridge.host, uuid |-> bridge.uuid, local_uuid |-> local_uuid,
      pin |-> DEFAULT_PIN ]

\* the data of the entry _register creates
EntryData(bridge, local_uuid) ==
    [host |-> bridge.host, uuid |-> bridge.uuid, local_uuid |-> local_uuid]

\* the entry the host platform stores for a create_entry result of a flow
StoredEntry(fl, result) ==
    [title |-> result.title, data |-> result.data, unique_id |-> fl.unique_id]

\* the except clauses around _register in the steps
OnTimeout(fl) ==
    CASE fl.handler = "user" ->
            [fl EXCEPT !.errors = BaseError("cannot_connect"), !.pc = "user_discover"]
      [] fl.handler = "manual" ->
            ShowManualForm(fl, BaseError("cannot_connect"), fl.user_input.host)
      [] fl.handler = "enter_pin" ->
            ShowEnterPinForm(fl, BaseError("cannot_connect"))
      [] OTHER -> Propagated(fl, "AioComfoConnectTimeout")

\* A completion that takes the running step, not the source of the flow,
\* for the mark of a reauth.
CompleteByHandler(fl, es) ==
    IF fl.handler = "reauth"
    THEN [ flow |-> Finished([fl EXCEPT !.reloads = Append(@, fl.entry_id)],
                             Abort("reauth_successful")),
           entries |-> es ]
    ELSE LET result == CreateEntry(fl.bridge.host, EntryData(fl.bridge, fl.local_uuid))
         IN  [ flow |-> Finished([fl EXCEPT !.created = @ + 1], result),
               entries |-> Append(es, [title |-> result.title, data |-> result.data,
                                       unique_id |-> fl.unique_id]) ]

\* _register after the try block: the reauth branch, or the new entry.
\* The pair of the flow and the entries it leaves.
Complete(fl, es) ==
    IF fl.source = SOURCE_REAUTH
    THEN [ flow |-> Finished([fl EXCEPT !.reloads = Append(@, fl.entry_id)],
                             Abort("reauth_successful")),
           entries |-> es ]
    ELSE LET result == CreateEntry(fl.bridge.host, EntryData(fl.bridge, fl.local_uuid))
         IN  [ flow |-> Finished([fl EXCEPT !.created = @ + 1], result),
               entries |-> Append(es, StoredEntry(fl, result)) ]

\* what follows the finally clause, by the way the try block was left
AfterFinally(fl, es) ==
    CASE fl.after = "finish" -> Complete(fl, es)
      [] fl.after = "pin_form" ->
            [flow |-> ShowEnterPinForm(fl, fl.errors), entries |-> es]
      [] fl.after = "timeout" -> [flow |-> OnTimeout(fl), entries |-> es]
      [] OTHER -> [flow |-> Propagated(fl, "ComfoConnectNotAllowed"), entries |-> es]

\* leaving the try block: the finally clause is next
Leave(fl, after, errors) ==
    [fl EXCEPT !.after = after, !.errors = errors, !.pc = "disconnect"]

\* connect and cmd_register_app are passed self.local_uuid
Logged(fl, op, pin, res) ==
    LET uuid == IF op \in {"connect", "register"} THEN fl.local_uuid ELSE NoneStr
    IN  [fl EXCEPT !.log = Append(@, Call(fl.bridge, op, uuid, pin, res))]

\* await self.bridge.connect(self.local_uuid), before the try block
AfterConnect(fl, res) ==
    IF res = "ok"
    THEN [fl EXCEPT !.connected = TRUE,
                    !.pc = IF fl.pin # NoPin THEN "register_pin" ELSE "start_session"]
    ELSE OnTimeout(fl)

Connect(f) ==
    /\ flows[f].pc = "connect"
    /\ \E res \in {"ok", "timeout"} :
          flows' = [flows EXCEPT ![f] = AfterConnect(Logged(@, "connect", NoPin, res), res)]
    /\ UNCHANGED entries

\* cmd_register_app(local_uuid, name, pin) with the pin that was supplied
AfterRegisterPin(fl, res) ==
    IF res = "timeout" THEN Leave(fl, "timeout", NoErrors)
    ELSE [fl EXCEPT !.pc = "start_session"]

RegisterPin(f) ==
    /\ flows[f].pc = "register_pin"
    /\ \E res \in {"ok", "not_allowed", "timeout"} :
          flows' = [flows EXCEPT ![f] =
                       AfterRegisterPin(Logged(@, "register", flows[f].pin, res), res)]
    /\ UNCHANGED entries

\* A start_session whose refusal is passed over like the refusal of the
\* register command before it.
AfterStartSessionRefusalIgnored(fl, res) ==
    IF res = "timeout" THEN Leave(fl, "timeout", NoErrors)
    ELSE Leave(fl, "finish", NoErrors)

\* A start_session after which a supplied PIN is asked for again whether
\* the session started or not.
AfterStartSessionAsksAgain(fl, res) ==
    CASE res = "timeout" -> Leave(fl, "timeout", NoErrors)
      [] fl.pin # NoPin -> Leave(fl, "pin_form", BaseError("invalid_pin"))
      [] res = "ok" -> Leave(fl, "finish", NoErrors)
      [] OTHER -> [fl EXCEPT !.pc = "register_default"]

\* A start_session whose PIN form is returned past the disconnect, as when
\* the disconnect follows the try block instead of being its finally clause.
AfterStartSessionReturnsConnected(fl, res) ==
    CASE res = "ok" -> Leave(fl, "finish", NoErrors)
      [] res = "timeout" -> Leave(fl, "timeout", NoErrors)
      [] OTHER ->
            IF fl.pin # NoPin THEN ShowEnterPinForm(fl, BaseError("invalid_pin"))
            ELSE [fl EXCEPT !.pc = "register_default"]

\* A start_session whose except clause tests the PIN for truth, so that the
\* PIN 0 counts as no PIN.
AfterStartSessionZeroPinIsAbsent(fl, res) ==
    CASE res = "ok" -> Leave(fl, "finish", NoErrors)
      [] res = "timeout" -> Leave(fl, "timeout", NoErrors)
      [] OTHER ->
            IF fl.pin # NoPin /\ fl.pin # IntVal(0)
            THEN Leave(fl, "pin_form", BaseError("invalid_pin"))
            ELSE [fl EXCEPT !.pc = "register_default"]

\* cmd_start_session(True), and its except clause up to the next await
AfterStartSession(fl, res) ==
    CASE res = "ok" -> Leave(fl, "finish", NoErrors)
      [] res = "timeout" -> Leave(fl, "timeout", NoErrors)
      [] OTHER ->
            IF fl.pin # NoPin THEN Leave(fl, "pin_form", BaseError("invalid_pin"))
            ELSE [fl EXCEPT !.pc = "register_default"]

StartSession(f) ==
    /\ flows[f].pc = "start_session"
    /\ \E res \in {"ok", "not_allowed", "timeout"} :
          flows' = [flows EXCEPT ![f] =
                       AfterStartSession(Logged(@, "start_session", NoPin, res), res)]
    /\ UNCHANGED entries

\* A default-PIN registration that takes its success for the session.
AfterRegisterDefaultFinishes(fl, res) ==
    CASE res = "ok" -> Leave(fl, "finish", NoErrors)
      [] res = "timeout" -> Leave(fl, "timeout", NoErrors)
      [] OTHER -> Leave(fl, "pin_form", NoErrors)

\* cmd_register_app(local_uuid, name, DEFAULT_PIN)
AfterRegisterDefault(fl, res) ==
    CASE res = "ok" -> [fl EXCEPT !.pc = "start_session_again"]
      [] res = "timeout" -> Leave(fl, "timeout", NoErrors)
      [] OTHER -> Leave(fl, "pin_form", NoErrors)

RegisterDefault(f) ==
    /\ flows[f].pc = "register_default"
    /\ \E res \in {"ok", "not_allowed", "timeout"} :
          flows' = [flows EXCEPT ![f] =
                       AfterRegisterDefault(
                           Logged(@, "register", StrVal(DEFAULT_PIN), res), res)]
    /\ UNCHANGED entries

\* the second cmd_start_session(True): no except clause encloses it
AfterStartSessionAgain(fl, res) ==
    CASE res = "ok" -> Leave(fl, "finish", NoErrors)
      [] res = "timeout" -> Leave(fl, "timeout", NoErrors)
      [] OTHER -> Leave(fl, "not_allowed", NoErrors)

StartSessionAgain(f) ==
    /\ flows[f].pc = "start_session_again"
    /\ \E res \in {"ok", "not_allowed", "timeout"} :
          flows' = [flows EXCEPT ![f] =
                       AfterStartSessionAgain(
                           Logged(@, "start_session", NoPin, res), res)]
    /\ UNCHANGED entries

\* finally: await self.bridge.disconnect(), and what follows it
AfterDisconnect(fl, es) ==
    AfterFinally([Logged(fl, "disconnect", NoPin, "ok") EXCEPT !.connected = FALSE], es)

Disconnect(f) ==
    /\ flows[f].pc = "disconnect"
    /\ LET after == AfterDisconnect(flows[f], entries)
       IN  /\ flows' = [flows EXCEPT ![f] = after.flow]
           /\ entries' = after.entries

(***************************************************************************)
(* The steps.                                                              *)
(***************************************************************************)
\* The flow manager starts a flow on the first free slot f: finished flows
\* are dropped.
Started(f, fl) ==
    [g \in Flows |-> IF g = f THEN fl
                     ELSE IF flows[g].pc = "done" THEN Idle ELSE flows[g]]

Free(f) == flows[f].pc \in {"idle", "done"}

CanStart(f) ==
    /\ Free(f)
    /\ \A g \in Flows : g < f => ~Free(g)
    /\ Len(entries) < MaxEntries

\* The flow manager calls the step of the form a flow waits at with the
\* user's input.
Submitted(fl, user_input) ==
    [fl EXCEPT !.step = fl.cur_step.step_id, !.user_input = user_input,
               !.bridges = <<>>, !.log = <<>>, !.result = NoResult]

\* async_step_user(None): nothing is selected yet, the bridges are looked for
StartUser(f) ==
    /\ CanStart(f)
    /\ flows' = Started(f, [NewFlow(SOURCE_USER, NoInput) EXCEPT !.pc = "user_discover"])
    /\ UNCHANGED entries

\* async_step_user: the discovery, the filter and the selection form
AfterUserDiscover(fl, bridges, es) ==
    ShowUserForm(
        [fl EXCEPT !.bridges = bridges,
                   !.discovered_bridges = DictOfBridges(bridges, CurrentIds(es))],
        fl.errors)

UserDiscover(f) ==
    /\ flows[f].pc = "user_discover"
    /\ \E bridges \in DiscoverAll :
          flows' = [flows EXCEPT ![f] = AfterUserDiscover(@, bridges, entries)]
    /\ UNCHANGED entries

\* async_set_unique_id(self.bridge.uuid) and _abort_if_unique_id_configured(),
\* then _register(pin)
CheckedRegister(fl, pin, handler, generated, es) ==
    LET fl1 == [fl EXCEPT !.unique_id = fl.bridge.uuid]
    IN  IF UniqueIdConfigured(fl1.unique_id, es)
        THEN Finished(fl1, Abort("already_configured"))
        ELSE Register(fl1, pin, handler, generated)

\* async_step_user(user_input): the manual entry, or a discovered bridge
SelectBridge(fl, generated, es) ==
    LET uuid == fl.user_input.uuid
    IN
    IF uuid = COMFOCONNECT_MANUAL_BRIDGE_ID
    THEN ShowManualForm(fl, NoErrors, NoneStr)
    ELSE IF uuid \notin Keys(fl.discovered_bridges)
    THEN Propagated(fl, "KeyError")
    ELSE CheckedRegister([fl EXCEPT !.bridge = fl.discovered_bridges[uuid]],
                         NoPin, "user", generated, es)

SubmitUser(f) ==
    /\ flows[f].pc = "form"
    /\ flows[f].cur_step.step_id = "user"
    /\ \E uuid \in DOMAIN flows[f].cur_step.schema.choices,
          generated \in Generated(flows[f].local_uuid) :
          flows' = [flows EXCEPT ![f] =
                       SelectBridge(Submitted(@, [uuid |-> uuid]), generated, entries)]
    /\ UNCHANGED entries

\* async_step_manual(user_input) up to the discovery of the host
SubmitManual(f) ==
    /\ flows[f].pc = "form"
    /\ flows[f].cur_step.step_id = "manual"
    /\ \E host \in Hosts, pin \in ManualPinInputs :
          flows' = [flows EXCEPT ![f] =
                       [Submitted(@, [host |-> host, pin |-> pin])
                           EXCEPT !.pc = "manual_discover"]]
    /\ UNCHANGED entries

\* async_step_import: the token is the local uuid, the host goes to the
\* manual step without a PIN
Import(fl) ==
    [fl EXCEPT !.local_uuid = fl.user_input.token,
               !.user_input = [host |-> fl.user_input.host, pin |-> Absent],
               !.pc = "manual_discover"]

StartImport(f) ==
    /\ CanStart(f)
    /\ \E host \in Hosts, token \in ImportTokens :
          flows' = Started(f,
                      Import(NewFlow(SOURCE_IMPORT, [host |-> host, token |-> token])))
    /\ UNCHANGED entries

\* async_step_manual after the discovery of the host.  Once the PIN is
\* parsed the step reads only the host of its input.
Manual(fl, bridges, generated, es) ==
    LET host == fl.user_input.host
        fl0 == [fl EXCEPT !.bridges = bridges, !.user_input = [host |-> host]]
    IN
    IF Len(bridges) = 0
    THEN ShowManualForm(fl0, BaseError("invalid_host"), host)
    ELSE LET fl1 == [fl0 EXCEPT !.bridge = bridges[1], !.unique_id = bridges[1].uuid]
             parsed == ParseOptionalPin(fl.user_input)
         IN  IF UniqueIdConfigured(fl1.unique_id, es)
             THEN Finished(fl1, Abort("already_configured"))
             ELSE IF parsed.error # NoneStr
             THEN ShowManualForm(fl1, PinError(parsed.error), host)
             ELSE Register(fl1, parsed.pin, "manual", generated)

ManualDiscover(f) ==
    /\ flows[f].pc = "manual_discover"
    /\ \E bridges \in DiscoverHost(flows[f].user_input.host),
          generated \in Generated(flows[f].local_uuid) :
          flows' = [flows EXCEPT ![f] = Manual(@, bridges, generated, entries)]
    /\ UNCHANGED entries

\* async_step_reauth(entry.data) of the flow the platform starts for an entry
Reauth(fl, generated) ==
    Register([fl EXCEPT !.bridge = Bridge(fl.user_input.host, fl.user_input.uuid),
                        !.local_uuid = fl.user_input.local_uuid],
             NoPin, "reauth", generated)

StartReauth(f) ==
    /\ CanStart(f)
    /\ \E id \in DOMAIN entries :
       \E generated \in Generated(entries[id].data.local_uuid) :
          flows' = Started(f,
                      Reauth([NewFlow(SOURCE_REAUTH, entries[id].data) EXCEPT
                                 !.entry_id = id, !.unique_id = entries[id].unique_id],
                             generated))
    /\ UNCHANGED entries

\* A form schema that coerces the PIN and leaves out the range.
EnterPinSchemaCoerceOnly(raw) == CoerceInt(raw)

\* The flow manager validates the input with the schema of the form
\* {vol.Required(CONF_PIN): PIN_VALIDATOR}; an input it rejects never
\* reaches the step.
EnterPinSchema(raw) == PIN_VALIDATOR(raw)

\* async_step_enter_pin(user_input)
EnterPin(fl, generated) ==
    IF fl.user_input # NoInput /\ CONF_PIN \in DOMAIN fl.user_input
    THEN Register(fl, fl.user_input.pin, "enter_pin", generated)
    ELSE ShowEnterPinForm(fl, NoErrors)

SubmitEnterPin(f) ==
    /\ flows[f].pc = "form"
    /\ flows[f].cur_step.step_id = "enter_pin"
    /\ \E raw \in EnterPinInputs, generated \in Generated(flows[f].local_uuid) :
          /\ EnterPinSchema(raw) # Invalid
          /\ flows' = [flows EXCEPT ![f] =
                          EnterPin(Submitted(@, [pin |-> EnterPinSchema(raw)]), generated)]
    /\ UNCHANGED entries

(***************************************************************************)
(* Specification: one wizard at a time.  A flow is started only when no    *)
(* other flow is in progress.                                              *)
(***************************************************************************)
Quiet == \A g \in Flows : flows[g].pc \in {"idle", "done"}

Next ==
    \E f \in Flows :
        \/ Quiet /\ StartUser(f)
        \/ Quiet /\ StartImport(f)
        \/ Quiet /\ StartReauth(f)
        \/ UserDiscover(f)
        \/ SubmitUser(f)
        \/ SubmitManual(f)
        \/ ManualDiscover(f)
        \/ SubmitEnterPin(f)
        \/ Connect(f)
        \/ RegisterPin(f)
        \/ StartSession(f)
        \/ RegisterDefault(f)
        \/ StartSessionAgain(f)
        \/ Disconnect(f)

Spec == Init /\ [][Next]_vars

(***************************************************************************)
(* Specification: wizards side by side.  Each step of a flow runs up to    *)
(* its next await, where the steps of another flow can run.  The wizards   *)
(* are those started while nothing is configured: imports, and one wizard  *)
(* of the user at a time, as far as they get without typed input (a flow   *)
(* that reaches the manual or the PIN form waits there).                   *)
(***************************************************************************)
NothingConfigured == entries = <<>>

\* The user has no wizard open.
NoUserWizard ==
    \A g \in Flows : flows[g].source = SOURCE_USER => flows[g].pc \in {"idle", "done"}

NextInterleaved ==
    \E f \in Flows :
        \/ NothingConfigured /\ NoUserWizard /\ StartUser(f)
        \/ NothingConfigured /\ StartImport(f)
        \/ UserDiscover(f)
        \/ SubmitUser(f)
        \/ ManualDiscover(f)
        \/ Connect(f)
        \/ StartSession(f)
        \/ RegisterDefault(f)
        \/ StartSessionAgain(f)
        \/ Disconnect(f)

SpecInterleaved == Init /\ [][NextInterleaved]_vars

(***************************************************************************)
(* Properties.                                                             *)
(***************************************************************************)
\* The last step of flow f has returned or raised.
StepEnded(f) == flows[f].pc \in {"form", "done"} /\ flows[f].result # NoResult

Last(log) == log[Len(log)]
HasCall(log, op, res) == \E i \in DOMAIN log : log[i].op = op /\ log[i].res = res
HasResult(log, res) == \E i \in DOMAIN log : log[i].res = res

\* A start_session command succeeded and was the last command before the
\* disconnect.
SessionStarted(log) ==
    \E i \in DOMAIN log :
        /\ log[i].op = "start_session" /\ log[i].res = "ok"
        /\ \A j \in DOMAIN log : j > i => log[j].op = "disconnect"

ConfiguredUuids == {entries[i].data.uuid : i \in DOMAIN entries}

\* C1: an entry the wizard creates holds exactly host, uuid and local_uuid:
\* the host and uuid of the bridge the handshake was made with and the
\* local uuid the wizard connected with; there is no PIN in it; its title is
\* the bridge host; and that is the entry that is stored.
C1_EntryHoldsBridgeAndLocalUuid ==
    \A f \in Flows :
        LET fl == flows[f] IN
        fl.result.type = "create_entry" =>
            /\ DOMAIN fl.result.data = {"host", "uuid", "local_uuid"}
            /\ fl.log # <<>>
            /\ fl.log[1].op = "connect" /\ fl.log[1].res = "ok"
            /\ \A i \in DOMAIN fl.log : fl.log[i].bridge = fl.log[1].bridge
            /\ fl.result.data.host = fl.log[1].bridge.host
            /\ fl.result.data.uuid = fl.log[1].bridge.uuid
            /\ fl.result.data.local_uuid = fl.log[1].uuid
            /\ fl.result.data.local_uuid = fl.local_uuid
            /\ fl.result.title = fl.log[1].bridge.host
            /\ entries # <<>>
            /\ Last(entries).data = fl.result.data
            /\ Last(entries).title = fl.result.title

\* An entry is created in the enter_pin step, after a PIN was registered,
\* for the bridge u1 at its second address.
C1_Witness ==
    \E f \in Flows :
        /\ flows[f].result.type = "create_entry"
        /\ flows[f].step = "enter_pin"
        /\ HasCall(flows[f].log, "register", "ok")
        /\ flows[f].result.data.host = "h3"

C2_State ==
    \A f \in Flows :
        LET fl == flows[f] IN
        /\ fl.created <= 1
        /\ fl.result.type = "create_entry" <=> fl.created = 1
        /\ fl.created = 1 =>
              /\ fl.pc = "done"
              /\ SessionStarted(fl.log)
              /\ Last(fl.log).op = "disconnect"

C2_Step ==
    /\ entries' # entries =>
          /\ Len(entries') = Len(entries) + 1
          /\ SubSeq(entries', 1, Len(entries)) = entries
          /\ \E f \in Flows : flows[f].created = 0 /\ flows'[f].created = 1
    /\ \A f \in Flows :
          flows[f].created = 1 /\ flows'[f] # flows[f] =>
              \* the instance is dropped, or a new instance takes its place
              \/ flows'[f] = Idle
              \/ flows'[f].is_init /\ flows'[f].created = 0 /\ flows'[f].log = <<>>

\* C2: a wizard instance writes the configuration entry at most once, only
\* after a start_session command succeeded in the registration attempt that
\* ends with the write, and does nothing after it.
C2_WrittenOnceAtTheEnd == [] C2_State /\ [][C2_Step]_vars

\* An entry was written by a flow that needed the default-PIN registration.
C2_Witness ==
    \E f \in Flows :
        /\ flows[f].created = 1
        /\ HasCall(flows[f].log, "start_session", "not_allowed")
        /\ HasCall(flows[f].log, "start_session", "ok")

\* C3: a step in which a bridge call timed out ends with a form carrying
\* the base error cannot_connect; the timeout does not leave the step.
C3_TimeoutEndsInForm ==
    \A f \in Flows :
        StepEnded(f) /\ HasResult(flows[f].log, "timeout") =>
            /\ flows[f].result.type = "form"
            /\ "base" \in DOMAIN flows[f].result.errors
            /\ flows[f].result.errors["base"] = "cannot_connect"

\* C4: a refusal of a register or start_session command is followed by a
\* further command of the handshake or by the PIN entry form, and never
\* leaves the registration routine.
C4_RefusalIsHandled ==
    \A f \in Flows :
        LET fl == flows[f] IN
        StepEnded(f) =>
            /\ fl.result # Raised("ComfoConnectNotAllowed")
            /\ \A i \in DOMAIN fl.log :
                  fl.log[i].res = "not_allowed" =>
                      \/ i < Len(fl.log) /\ fl.log[i + 1].op # "disconnect"
                      \/ fl.result.type = "form" /\ fl.result.step_id = "enter_pin"

InRegister(fl) ==
    fl.pc \in {"connect", "register_pin", "start_session", "register_default",
               "start_session_again", "disconnect"}

\* C5: no two entries have the same bridge uuid; a user or import flow makes
\* no bridge call for a bridge whose uuid is configured; and a flow that
\* aborts as already configured has made no bridge call and no entry.
C5_NoBridgeTwice ==
    /\ \A i, j \in DOMAIN entries :
          i # j => entries[i].data.uuid # entries[j].data.uuid
    /\ \A f \in Flows :
          LET fl == flows[f] IN
          /\ fl.source # SOURCE_REAUTH /\ (InRegister(fl) \/ fl.connected) =>
                fl.bridge.uuid \notin ConfiguredUuids
          /\ fl.result = Abort("already_configured") =>
                fl.log = <<>> /\ fl.created = 0 /\ ~fl.connected

\* A manual flow for the second address of a configured bridge aborts.
C5_Witness ==
    \E f \in Flows :
        /\ flows[f].result = Abort("already_configured")
        /\ flows[f].bridge.host = "h3"
        /\ \E i \in DOMAIN entries :
              entries[i].data.uuid = "u1" /\ entries[i].data.host = "h1"

\* The PIN text coerces to an integer in 0..9999.
Coerces(text) == PyInt(text) # Invalid /\ PyInt(text).int \in 0..9999

\* The PIN text of the input of a manual step; none when the PIN is absent.
PinText(user_input) == IF user_input.pin = Absent THEN <<>> ELSE user_input.pin.str

\* The manual step of fl goes on to the registration with the PIN of text.
PinAccepted(fl, text) == fl.pc = "connect" /\ fl.pin = PyInt(text)

\* The manual step of fl ends with the manual form, invalid_pin on the PIN
\* field and host as default, without a bridge call.
PinRejected(fl, host) ==
    /\ fl.pc = "form"
    /\ fl.result = Form("manual", PinError("invalid_pin"), [host_default |-> host])
    /\ fl.log = <<>>
    /\ ~fl.connected

\* The manual step of fl neither validated a PIN nor made a bridge call.
NoPinError(fl) ==
    /\ fl.log = <<>>
    /\ fl.pc = "form" => CONF_PIN \notin DOMAIN fl.result.errors

\* The discovery of the manual step of fl found a bridge that is not
\* configured.
FoundNewBridge(fl) ==
    fl.bridges # <<>> /\ fl.bridges[1].uuid \notin ConfiguredUuids

C6_Original_Step ==
    \A f \in Flows :
        flows[f].pc = "manual_discover" /\ flows'[f] # flows[f] =>
            LET text == PinText(flows[f].user_input)
                host == flows[f].user_input.host
            IN  IF text # <<>>
                THEN /\ PinAccepted(flows'[f], text) <=> Coerces(text)
                     /\ ~PinAccepted(flows'[f], text) => PinRejected(flows'[f], host)
                ELSE /\ NoPinError(flows'[f])
                     /\ flows'[f].pc = "connect" => flows'[f].pin = NoPin

\* C6 as stated: in the manual step a non-empty PIN input is accepted if and
\* only if it coerces to an integer in 0..9999, and when it is not accepted
\* the manual form is shown again with invalid_pin on the PIN field, the
\* entered host as default and no bridge call; an empty or absent PIN is no
\* PIN and no error.
C6_PinAcceptedIffCoerces == [][C6_Original_Step]_vars

C6_Amended_Step ==
    \A f \in Flows :
        flows[f].pc = "manual_discover" /\ flows'[f] # flows[f] =>
            LET text == PinText(flows[f].user_input)
                host == flows[f].user_input.host
            IN  IF text # <<>>
                THEN /\ FoundNewBridge(flows'[f]) =>
                          /\ PinAccepted(flows'[f], text) <=> Coerces(text)
                          /\ ~PinAccepted(flows'[f], text) => PinRejected(flows'[f], host)
                     /\ ~FoundNewBridge(flows'[f]) =>
                          /\ flows'[f].pc \in {"form", "done"}
                          /\ NoPinError(flows'[f])
                     /\ ~Coerces(text) =>
                          flows'[f].pc \in {"form", "done"} /\ flows'[f].log = <<>>
                ELSE /\ NoPinError(flows'[f])
                     /\ flows'[f].pc = "connect" => flows'[f].pin = NoPin

\* C6 as amended: the same, for a host whose bridge was discovered and is
\* not configured yet; for any other host the PIN is not validated and the
\* step ends with invalid_host or already_configured; an input that does
\* not coerce never leads to a bridge call.
C6_PinAcceptedIffCoercesForNewBridge == [][C6_Amended_Step]_vars

\* The manual form is shown again with invalid_pin for a discovered bridge.
C6_Witness ==
    \E f \in Flows :
        /\ flows[f].pc = "form"
        /\ flows[f].step = "manual"
        /\ flows[f].bridges # <<>>
        /\ flows[f].result.type = "form"
        /\ CONF_PIN \in DOMAIN flows[f].result.errors

\* A register command with a supplied PIN succeeded.
PinRegistered(log) ==
    \E i \in DOMAIN log : log[i].op = "register" /\ IsInt(log[i].pin) /\ log[i].res = "ok"

\* C7: a step in which the supplied PIN was registered and the session was
\* started, with no timeout, ends the wizard: with the entry, or, in a
\* reauth flow, with the abort reauth_successful.
C7_AcceptedPinEndsTheWizard ==
    \A f \in Flows :
        LET fl == flows[f] IN
        /\ StepEnded(f)
        /\ PinRegistered(fl.log)
        /\ HasCall(fl.log, "start_session", "ok")
        /\ ~HasResult(fl.log, "timeout")
        => /\ fl.pc = "done"
           /\ IF fl.source = SOURCE_REAUTH
              THEN fl.result = Abort("reauth_successful")
              ELSE fl.result.type = "create_entry" /\ fl.created = 1

\* A reauth flow ends in the enter_pin step in which its PIN was accepted.
C7_Witness ==
    \E f \in Flows :
        /\ flows[f].source = SOURCE_REAUTH
        /\ flows[f].step = "enter_pin"
        /\ StepEnded(f)
        /\ PinRegistered(flows[f].log)
        /\ HasCall(flows[f].log, "start_session", "ok")

\* C8: a reauth flow creates no entry; it schedules a reload only when its
\* handshake succeeded, then exactly one, of the entry of its context, and
\* aborts with reauth_successful; any other flow schedules no reload.
C8_ReauthReloadsAndCreatesNothing ==
    \A f \in Flows :
        LET fl == flows[f] IN
        IF fl.source = SOURCE_REAUTH
        THEN /\ fl.created = 0
             /\ fl.result.type # "create_entry"
             /\ fl.entry_id \in DOMAIN entries
             /\ entries[fl.entry_id].data.uuid = fl.bridge.uuid
             /\ fl.reloads \in {<<>>, <<fl.entry_id>>}
             /\ fl.reloads # <<>> <=> fl.result = Abort("reauth_successful")
             /\ StepEnded(f) /\ SessionStarted(fl.log) <=> fl.reloads # <<>>
        ELSE fl.reloads = <<>>

\* A reauth flow of the second entry succeeds after PIN entry.
C8_Witness ==
    \E f \in Flows :
        /\ flows[f].source = SOURCE_REAUTH
        /\ flows[f].step = "enter_pin"
        /\ flows[f].reloads = <<2>>

\* C9: the PIN of every register command is the default PIN, four digits,
\* or an integer in 0..9999 that the user supplied in the manual or the
\* enter_pin step.
C9_RegisteredPinInRange ==
    \A f \in Flows :
        \A i \in DOMAIN flows[f].log :
            LET call == flows[f].log[i] IN
            call.op = "register" =>
                \/ /\ call.pin = StrVal(DEFAULT_PIN)
                   /\ Len(call.pin.str) = 4
                   /\ \A k \in 1..4 : call.pin.str[k] \in Digits
                \/ /\ IsInt(call.pin)
                   /\ call.pin.int \in 0..9999
                   /\ flows[f].step \in {"manual", "enter_pin"}

\* The largest PIN is registered from the enter_pin step, and the smallest
\* from the manual step.
C9_Witness ==
    \E f \in Flows :
        /\ flows[f].step = "enter_pin"
        /\ \E i \in DOMAIN flows[f].log :
              flows[f].log[i].op = "register" /\ flows[f].log[i].pin = IntVal(9999)

CallsOf(log, op) == {i \in DOMAIN log : log[i].op = op}

\* C10: the connection is open only inside the registration routine, from
\* the successful connect to the disconnect; a step makes at most one
\* connect and, exactly when the connect succeeded, one disconnect, which
\* is its last bridge call.
C10_ConnectionClosedOutsideRegister ==
    \A f \in Flows :
        LET fl == flows[f]
            connects == CallsOf(fl.log, "connect")
            disconnects == CallsOf(fl.log, "disconnect")
        IN  /\ fl.connected => InRegister(fl)
            /\ fl.connected <=> HasCall(fl.log, "connect", "ok") /\ disconnects = {}
            /\ Cardinality(connects) <= 1
            /\ Cardinality(disconnects) <= 1
            /\ connects # {} => connects = {1}
            /\ disconnects # {} =>
                  disconnects = {Len(fl.log)} /\ HasCall(fl.log, "connect", "ok")
            /\ ~InRegister(fl) /\ HasCall(fl.log, "connect", "ok") => disconnects # {}

\* A refusal left the step, and the connection was closed before.
C10_Witness ==
    \E f \in Flows :
        /\ flows[f].result = Raised("ComfoConnectNotAllowed")
        /\ ~flows[f].connected
        /\ HasCall(flows[f].log, "connect", "ok")
        /\ Last(flows[f].log).op = "disconnect"

\* The bridge calls of a registration without a PIN, as far as they went:
\* connect, start_session, and only after its refusal a register command
\* with the default PIN, and only after its success one more start_session.
NoPinOrder(log) ==
    /\ Len(log) <= 4
    /\ \A i \in DOMAIN log :
          CASE i = 1 -> log[i].op = "connect"
            [] i = 2 -> log[i].op = "start_session" /\ log[1].res = "ok"
            [] i = 3 -> /\ log[i].op = "register"
                        /\ log[i].pin = StrVal(DEFAULT_PIN)
                        /\ log[2].res = "not_allowed"
            [] OTHER -> log[i].op = "start_session" /\ log[3].res = "ok"

\* The try block of a registration without a PIN is left with these calls.
NoPinComplete(log) ==
    /\ Len(log) >= 2
    /\ Last(log).op = "start_session" /\ Last(log).res = "not_allowed" => Len(log) = 4
    /\ Last(log).op = "register" => Last(log).res # "ok"

C11_State ==
    \A f \in Flows :
        LET fl == flows[f] IN
        InRegister(fl) /\ fl.pin = NoPin =>
            /\ NoPinOrder(fl.log)
            /\ fl.pc = "disconnect" => NoPinComplete(fl.log)
            /\ HasCall(fl.log, "start_session", "ok") /\ fl.log[2].res = "ok" =>
                  CallsOf(fl.log, "register") = {}

C11_Step ==
    \A f \in Flows :
        LET fl == flows[f]
            new == flows'[f]
        IN
        \* the registrations that run without a PIN
        /\ new.pc = "connect" /\ new # fl =>
              (new.pin = NoPin <=>
                  \/ new.handler \in {"user", "reauth"}
                  \/ new.handler = "manual" /\ PinText(fl.user_input) = <<>>)
        \* how they end
        /\ fl.pc = "disconnect" /\ fl.pin = NoPin /\ new # fl =>
              /\ Last(fl.log).op = "register" /\ Last(fl.log).res = "not_allowed" =>
                    /\ new.pc = "form"
                    /\ new.result = Form("enter_pin", NoErrors, [pin |-> "PIN_VALIDATOR"])
                    /\ new.created = fl.created
              /\ Last(fl.log).res = "ok" =>
                    /\ new.pc = "done"
                    /\ new.result.type = "create_entry" \/ new.result = Abort("reauth_successful")

\* C11: a registration without a PIN (a bridge picked from the list, a
\* reauth, a manual or import step with an empty PIN) calls start_session
\* first; it sends a register command, with the default PIN, only after that
\* start_session was refused; a refused registration ends the step with the
\* PIN entry form without an error; an accepted one is followed by a second
\* start_session; and no register command follows a first start_session
\* that succeeded.
C11_DefaultPinOnlyAfterRefusal == [] C11_State /\ [][C11_Step]_vars

\* The user picked a bridge from the list, the default PIN was refused and
\* the PIN entry form is shown without an error.
C11_Witness ==
    \E f \in Flows :
        /\ flows[f].step = "user"
        /\ flows[f].result = Form("enter_pin", NoErrors, [pin |-> "PIN_VALIDATOR"])
        /\ Len(flows[f].log) = 4
        /\ flows[f].log[3].op = "register" /\ flows[f].log[3].res = "not_allowed"

\* The bridge calls of a registration with the PIN pin, as far as they
\* went: connect, the register command with pin, one start_session.
PinOrder(log, pin) ==
    /\ Len(log) <= 3
    /\ \A i \in DOMAIN log :
          CASE i = 1 -> log[i].op = "connect"
            [] i = 2 -> /\ log[i].op = "register" /\ log[i].pin = pin
                        /\ log[1].res = "ok"
            [] OTHER -> /\ log[i].op = "start_session"
                        /\ log[2].res \in {"ok", "not_allowed"}

C12_State ==
    \A f \in Flows :
        LET fl == flows[f] IN
        InRegister(fl) /\ fl.pin # NoPin =>
            /\ IsInt(fl.pin) /\ fl.pin.int \in 0..9999
            /\ PinOrder(fl.log, fl.pin)
            /\ fl.pc = "disconnect" /\ fl.log[2].res # "timeout" =>
                  Cardinality(CallsOf(fl.log, "start_session")) = 1

C12_Step ==
    \A f \in Flows :
        LET fl == flows[f]
            new == flows'[f]
        IN
        /\ fl.pc = "disconnect" /\ fl.pin # NoPin /\ new # fl =>
              /\ Len(new.log) = Len(fl.log) + 1
              /\ Last(new.log).op = "disconnect"
              /\ Last(fl.log).op = "start_session" /\ Last(fl.log).res = "not_allowed" =>
                    /\ new.pc = "form"
                    /\ new.result = Form("enter_pin", BaseError("invalid_pin"),
                                         [pin |-> "PIN_VALIDATOR"])
                    /\ new.created = 0
                    /\ entries' = entries

\* C12: a registration with a supplied PIN, an integer in 0..9999 with 0
\* among them, sends the register command with that PIN right after the
\* connect, goes on after its refusal as after its success, and calls
\* start_session exactly once; when that is refused the step ends with the
\* PIN entry form and the base error invalid_pin, with no register command
\* for the default PIN and no entry.
C12_PinRegisteredBeforeSession == [] C12_State /\ [][C12_Step]_vars

\* The PIN 0 was sent, the register command and the start_session were
\* refused, and the PIN entry form shows invalid_pin.
C12_Witness ==
    \E f \in Flows :
        /\ flows[f].result = Form("enter_pin", BaseError("invalid_pin"),
                                  [pin |-> "PIN_VALIDATOR"])
        /\ Len(flows[f].log) = 4
        /\ flows[f].log[2].pin = IntVal(0)
        /\ flows[f].log[2].res = "not_allowed"
        /\ flows[f].log[3].res = "not_allowed"

\* The slot f holds the same wizard instance before and after the step.
SameInstance(f) == flows[f].pc \notin {"idle", "done"}

\* Every connect and register call of the log was passed local_uuid.
CallsUse(log, local_uuid) ==
    \A i \in DOMAIN log :
        log[i].op \in {"connect", "register"} => log[i].uuid = local_uuid

C13_State ==
    \A f \in Flows :
        LET fl == flows[f] IN
        /\ CallsUse(fl.log, fl.local_uuid)
        /\ InRegister(fl) \/ fl.log # <<>> => fl.local_uuid # NoneStr
        /\ fl.result.type = "create_entry" => fl.result.data.local_uuid = fl.local_uuid

C13_Step ==
    \A f \in Flows :
        LET fl == flows[f]
            new == flows'[f]
        IN
        \* once set, the local uuid of an instance stays
        /\ SameInstance(f) /\ fl.local_uuid # NoneStr => new.local_uuid = fl.local_uuid
        \* it is generated where the registration begins, when there is none
        /\ SameInstance(f) /\ fl.local_uuid = NoneStr /\ new.local_uuid # NoneStr =>
              new.pc = "connect" /\ new.local_uuid \in RandomUuids
        \* a new instance has the one it was provided with, if any
        /\ ~SameInstance(f) /\ new.pc \notin {"idle", "done"} =>
              CASE new.source = SOURCE_REAUTH ->
                      new.local_uuid = entries[new.entry_id].data.local_uuid
                [] new.source = SOURCE_IMPORT -> new.local_uuid \in ImportTokens
                [] OTHER -> new.local_uuid = NoneStr
        \* the entry is stored with it
        /\ fl.created = 0 /\ new.created = 1 =>
              /\ Last(entries').data.local_uuid = fl.local_uuid
              /\ fl.local_uuid # NoneStr

\* C13: the local uuid of a wizard instance is the import token or the
\* stored value of the reauth entry when there is one, and is generated
\* otherwise, where the first registration begins; once set it does not
\* change for the rest of the instance; every connect and register call and
\* the entry that is stored carry it.
C13_LocalUuidFixedOnceSet == [] C13_State /\ [][C13_Step]_vars

\* A generated local uuid went through a registration that asked for the
\* PIN and a second one, from the PIN entry step, that stored the entry.
C13_Witness ==
    \E f \in Flows :
        /\ flows[f].step = "enter_pin"
        /\ flows[f].result.type = "create_entry"
        /\ flows[f].local_uuid \in RandomUuids
        /\ Last(entries).data.local_uuid = flows[f].local_uuid

\* The step of fl has just returned the bridge selection form.
UserFormShown(fl) ==
    fl.pc = "form" /\ fl.result.type = "form" /\ fl.result.step_id = "user"

\* The uuids of the discovered bridges that are not configured.
NewUuids(bridges, es) ==
    {bridges[i].uuid : i \in DOMAIN bridges} \ CurrentIds(es)

\* C14: when the bridge selection form is shown its choices are the manual
\* entry and the uuids, each with the host of a bridge that answered under
\* it, of the bridges the discovery of that step returned that are not
\* configured; the manual entry is there also when nothing was found; and
\* while the flow waits at the form every uuid that can be submitted from it
\* is a key of discovered_bridges, so that no lookup of a selection fails.
C14_ChoicesAreNewBridgesAndManual ==
    \A f \in Flows :
        LET fl == flows[f] IN
        /\ fl.result # Raised("KeyError")
        /\ UserFormShown(fl) =>
              LET choices == fl.result.schema.choices IN
              /\ fl.cur_step = fl.result
              /\ DOMAIN choices =
                    NewUuids(fl.bridges, entries) \cup {COMFOCONNECT_MANUAL_BRIDGE_ID}
              /\ \A k \in DOMAIN choices \ {COMFOCONNECT_MANUAL_BRIDGE_ID} :
                    \E i \in DOMAIN fl.bridges :
                        fl.bridges[i] = Bridge(choices[k], k)
        /\ fl.pc = "form" /\ fl.cur_step.step_id = "user" =>
              LET choices == fl.cur_step.schema.choices IN
              /\ COMFOCONNECT_MANUAL_BRIDGE_ID \in DOMAIN choices
              /\ DOMAIN choices \ {COMFOCONNECT_MANUAL_BRIDGE_ID} =
                    Keys(fl.discovered_bridges)
              /\ \A k \in Keys(fl.discovered_bridges) :
                    fl.discovered_bridges[k] = Bridge(choices[k], k)

\* The discovery returned a configured bridge beside a new one: the form
\* offers the new one and the manual entry.
C14_Witness ==
    \E f \in Flows :
        /\ UserFormShown(flows[f])
        /\ \E i \in DOMAIN flows[f].bridges :
              flows[f].bridges[i].uuid \in CurrentIds(entries)
        /\ DOMAIN flows[f].result.schema.choices = {"u2", COMFOCONNECT_MANUAL_BRIDGE_ID}

\* C15: when wizards for one bridge run side by side and interleave at
\* their awaits, at most one entry is created for the uuid of the bridge: no
\* two entries have the same bridge uuid, and no two wizard instances have
\* both created an entry for one bridge uuid.
C15_OneEntryPerBridgeInterleaved ==
    /\ \A i, j \in DOMAIN entries :
          i # j => entries[i].data.uuid # entries[j].data.uuid
    /\ \A f, g \in Flows :
          f # g /\ flows[f].created = 1 /\ flows[g].created = 1 =>
              flows[f].result.data.uuid # flows[g].result.data.uuid

====
